---- MODULE Spec2Model ----
(***************************************************************************)
(* Model of src/Comparacion2025A/main.py: a batch pipeline that reads the  *)
(* sheets of a spreadsheet, normalizes the headers, unifies the sheets     *)
(* into a master table, infers a simple type per column and exports the    *)
(* result.                                                                 *)
(*                                                                         *)
(* Text is modelled as a sequence of characters, each character a token:   *)
(*   "a" "b" ...  lowercase letters          "A" "B"  uppercase letters    *)
(*   "a^"         a precomposed accented letter (NFKD: "a" + "^")          *)
(*   "^"          a combining mark on its own                              *)
(*   "0".."9"     digits                     "_"   the underscore          *)
(*   "-"          the hyphen                 " "   whitespace              *)
(*   "!" "/" "."  punctuation ("/" is reserved in file names)              *)
(***************************************************************************)
EXTENDS Integers, Sequences, FiniteSets, TLC

VARIABLES
    pc,          \* position of the run (or of the operation under study)
    err,         \* the exception that ended the operation, "none" if none
    c,           \* the raw text given to the name normalizer
    name,        \* the text produced from c
    max_len,     \* safe_filename: its max_len argument
    columns,     \* normalize_headers: df.columns, the raw headers of a sheet
    new_cols,    \* normalize_headers: the names assigned to out.columns
    file,        \* the input path: "missing", "unreadable" or "ok"
    workbook,    \* the sheets stored in the input file, in file order
    sheets_cfg,  \* read_excel_all_sheets: the sheet selection
    io,          \* the accesses made to the input file, in order
    frames,      \* the sheets read: sheet name -> DataFrame, in dict order
    master,      \* the master table
    inferred,    \* the column type map
    disk,        \* the files present in the output directory
    used,        \* export_columns_csvs: the names used in this call
    col_i,       \* export_columns_csvs: the number of columns gone through
    written,     \* the files written by this run, in order
    exit_status  \* the status the process ended with, -1 while it runs

nameVars == <<c, name, max_len, columns, new_cols>>
readVars == <<file, workbook, sheets_cfg, io>>
tableVars == <<frames, master, inferred>>
exportVars == <<disk, used, col_i, written>>
vars == <<pc, err, nameVars, readVars, tableVars, exportVars, exit_status>>

----------------------------------------------------------------------------
(* Bounds of the model *)

MaxLen == 4          \* longest raw text given to the name normalizer
MaxHeaders == 3      \* most raw headers of one sheet given to normalize_headers
MaxHdrLen == 3       \* longest raw header of such a sheet
MaxPrefix == 2       \* safe_filename: longest free prefix of the raw name
MaxPad == 12         \* safe_filename: most letters appended to the prefix
MaxMaxLen == 12      \* safe_filename: largest max_len tried
MaxRows == 2         \* most rows of one sheet
MaxExportCols == 3   \* most columns of the table given to export_columns_csvs
MaxSelection == 2    \* longest list of sheet names given as sheets_cfg

----------------------------------------------------------------------------
(* Characters *)

\* the letters a-z and A-Z, in code order
LowerLetters == <<"a", "b", "c", "d", "e", "f", "g", "h", "i", "j", "k", "l", "m",
                  "n", "o", "p", "q", "r", "s", "t", "u", "v", "w", "x", "y", "z">>

UpperLetters == <<"A", "B", "C", "D", "E", "F", "G", "H", "I", "J", "K", "L", "M",
                  "N", "O", "P", "Q", "R", "S", "T", "U", "V", "W", "X", "Y", "Z">>

Lowers == {LowerLetters[i] : i \in 1..Len(LowerLetters)}
Uppers == {UpperLetters[i] : i \in 1..Len(UpperLetters)}
Digits == {"0", "1", "2", "3", "4", "5", "6", "7", "8", "9"}
Accented == {"a^"}
Combining == {"^"}
Spaces == {" "}

\* str.lower() of one character
Lower(ch) ==
    IF ch \in Uppers
    THEN LowerLetters[CHOOSE i \in 1..Len(UpperLetters) : UpperLetters[i] = ch]
    ELSE ch

\* the regular expression class \w (re.UNICODE): alphanumerics and "_"
IsWord(ch) == ch \in Lowers \cup Uppers \cup Digits \cup Accented \cup {"_"}

\* the regular expression class \s
IsSpace(ch) == ch \in Spaces

\* unicodedata.normalize("NFKD", ch) for one character
NFKD(ch) == IF ch = "a^" THEN <<"a", "^">> ELSE <<ch>>

Range(s) == {s[i] : i \in DOMAIN s}

\* "".join(parts): the concatenation of a sequence of sequences
RECURSIVE Concat(_)
Concat(parts) ==
    IF parts = <<>> THEN <<>>
    ELSE IF Len(parts) = 1 THEN parts[1]
    ELSE LET mid == Len(parts) \div 2
         IN  Concat(SubSeq(parts, 1, mid)) \o Concat(SubSeq(parts, mid + 1, Len(parts)))

Min(S) == CHOOSE m \in S : \A n \in S : m <= n
Max(S) == CHOOSE m \in S : \A n \in S : m >= n

\* str.strip(chars): drops leading and trailing characters of the set
Strip(s, chars) ==
    LET kept == {i \in 1..Len(s) : s[i] \notin chars}
    IN  IF kept = {} THEN <<>> ELSE SubSeq(s, Min(kept), Max(kept))

\* re.sub(r"[class]+", rep, s): every maximal run of characters of the
\* class is replaced by rep
SubRuns(s, class, rep) ==
    LET Piece(i) ==
            IF s[i] \notin class THEN <<s[i]>>
            ELSE IF i = 1 \/ s[i - 1] \notin class THEN rep
            ELSE <<>>
    IN  Concat([i \in 1..Len(s) |-> Piece(i)])

----------------------------------------------------------------------------
(* Utilidades de nombres *)

DropCombining(ch) ==
    SelectSeq(NFKD(ch), LAMBDA d : d \notin Combining)

remove_accents(s) == Concat([i \in 1..Len(s) |-> DropCombining(s[i])])

\* line 18: re.sub(r"[^\w\s-]", " ", s)
PunctToSpace(ch) ==
    IF IsWord(ch) \/ IsSpace(ch) \/ ch = "-" THEN ch ELSE " "

\* str.lower()
LowerSeq(s) == [i \in 1..Len(s) |-> Lower(s[i])]

\* to_snake_case with its last two substitutions in the other order
to_snake_case_swapped(s) ==
    LET s1 == [i \in 1..Len(s) |-> PunctToSpace(s[i])]
        s2 == SubRuns(LowerSeq(Strip(s1, Spaces)), {"_"}, <<"_">>)
    IN  SubRuns(s2, {"-"} \cup Spaces, <<"_">>)

to_snake_case(s) ==
    LET s1 == [i \in 1..Len(s) |-> PunctToSpace(s[i])]
        s2 == SubRuns(LowerSeq(Strip(s1, Spaces)),
                      {"-"} \cup Spaces, <<"_">>)
    IN  SubRuns(s2, {"_"}, <<"_">>)

columna == <<"c", "o", "l", "u", "m", "n", "a">>

\* lines 28-30 of normalize_headers: the name of one header before
\* the duplicates are resolved
normalize(raw) ==
    LET n == to_snake_case(remove_accents(Strip(raw, Spaces)))
    IN  IF n = <<>> THEN columna ELSE n


\* str(n) of a natural number
DigitSeq == <<"0", "1", "2", "3", "4", "5", "6", "7", "8", "9">>

RECURSIVE IntToStr(_)
IntToStr(n) ==
    IF n < 10 THEN <<DigitSeq[n + 1]>>
    ELSE IntToStr(n \div 10) \o <<DigitSeq[(n % 10) + 1]>>

\* lines 31-35 of normalize_headers, for the headers from position i on:
\* seen maps each name met so far to its occurrence counter
RECURSIVE ResolveDuplicates(_, _, _)
ResolveDuplicates(cols, i, seen) ==
    IF i > Len(cols) THEN <<>>
    ELSE LET n == normalize(cols[i])
         IN  IF n \in DOMAIN seen
             THEN LET k == seen[n] + 1
                  IN  <<n \o <<"_">> \o IntToStr(k)>>
                      \o ResolveDuplicates(cols, i + 1, [seen EXCEPT ![n] = k])
             ELSE <<n>> \o ResolveDuplicates(cols, i + 1,
                      [m \in DOMAIN seen \cup {n} |->
                          IF m = n THEN 0 ELSE seen[m]])

\* the columns of normalize_headers(df), df.columns = cols
normalize_headers(cols) == ResolveDuplicates(cols, 1, <<>>)

\* s[:k] of Python, k possibly negative
PyPrefix(s, k) ==
    LET stop == IF k >= 0 THEN (IF k < Len(s) THEN k ELSE Len(s))
                ELSE (IF Len(s) + k > 0 THEN Len(s) + k ELSE 0)
    IN  SubSeq(s, 1, stop)

\* str.encode("utf-8"): the bytes of one character
Punctuation == <<" ", "!", "\"", "#", "$", "%", "&", "'", "(", ")", "*", "+", ",",
                 "-", ".", "/">>

IndexOf(s, x) == CHOOSE i \in 1..Len(s) : s[i] = x

Utf8(ch) ==
    IF ch = "a^" THEN <<195, 162>>
    ELSE IF ch = "^" THEN <<204, 130>>
    ELSE IF ch = "_" THEN <<95>>
    ELSE IF ch \in Range(Punctuation) THEN <<31 + IndexOf(Punctuation, ch)>>
    ELSE IF ch \in Range(DigitSeq) THEN <<47 + IndexOf(DigitSeq, ch)>>
    ELSE IF ch \in Range(UpperLetters) THEN <<64 + IndexOf(UpperLetters, ch)>>
    ELSE <<96 + IndexOf(LowerLetters, ch)>>

\* hashlib.md5 (RFC 1321). A 32-bit word is a pair <<high, low>> of 16-bit
\* halves
RECURSIVE BitAnd(_, _)
BitAnd(a, b) ==
    IF a = 0 \/ b = 0 THEN 0
    ELSE (a % 2) * (b % 2) + 2 * BitAnd(a \div 2, b \div 2)

And32(x, y) == <<BitAnd(x[1], y[1]), BitAnd(x[2], y[2])>>
Or32(x, y) == <<x[1] + y[1] - BitAnd(x[1], y[1]), x[2] + y[2] - BitAnd(x[2], y[2])>>
Xor32(x, y) ==
    <<x[1] + y[1] - 2 * BitAnd(x[1], y[1]), x[2] + y[2] - 2 * BitAnd(x[2], y[2])>>
Not32(x) == <<65535 - x[1], 65535 - x[2]>>

Add32(x, y) ==
    LET lo == x[2] + y[2]
        hi == x[1] + y[1] + (lo \div 65536)
    IN  <<hi % 65536, lo % 65536>>

\* rotation of a word to the left by n bits, 0 <= n < 32
RotL(x, n) ==
    LET y == IF n >= 16 THEN <<x[2], x[1]>> ELSE x
        k == n % 16
        p == 2 ^ k
        r == 2 ^ (16 - k)
    IN  <<(y[1] % r) * p + (y[2] \div r), (y[2] % r) * p + (y[1] \div r)>>

MD5_K ==
    <<<<55146, 42104>>, <<59591, 46934>>, <<9248, 28891>>, <<49597, 52974>>,
        <<62844, 4015>>, <<18311, 50730>>, <<43056, 17939>>, <<64838, 38145>>,
        <<27008, 39128>>, <<35652, 63407>>, <<65535, 23473>>, <<35164, 55230>>,
        <<27536, 4386>>, <<64920, 29075>>, <<42617, 17294>>, <<18868, 2081>>,
        <<63006, 9570>>, <<49216, 45888>>, <<9822, 23121>>, <<59830, 51114>>,
        <<54831, 4189>>, <<580, 5203>>, <<55457, 59009>>, <<59347, 64456>>,
        <<8673, 52710>>, <<49975, 2006>>, <<62677, 3463>>, <<17754, 5357>>,
        <<43491, 59653>>, <<64751, 41976>>, <<26479, 729>>, <<36138, 19594>>,
        <<65530, 14658>>, <<34673, 63105>>, <<28061, 24866>>, <<64997, 14348>>,
        <<42174, 59972>>, <<19422, 53161>>, <<63163, 19296>>, <<48831, 48240>>,
        <<10395, 32454>>, <<60065, 10234>>, <<54511, 12421>>, <<1160, 7429>>,
        <<55764, 53305>>, <<59099, 39397>>, <<8098, 31992>>, <<50348, 22117>>,
        <<62505, 8772>>, <<17194, 65431>>, <<43924, 9127>>, <<64659, 41017>>,
        <<25947, 22979>>, <<36620, 52370>>, <<65519, 62589>>, <<34180, 24017>>,
        <<28584, 32335>>, <<65068, 59104>>, <<41729, 17172>>, <<19976, 4513>>,
        <<63315, 32386>>, <<48442, 62005>>, <<10967, 53947>>, <<60294, 54161>>>>

MD5_S ==
    <<7, 12, 17, 22, 7, 12, 17, 22, 7, 12, 17, 22, 7, 12, 17, 22,
        5, 9, 14, 20, 5, 9, 14, 20, 5, 9, 14, 20, 5, 9, 14, 20,
        4, 11, 16, 23, 4, 11, 16, 23, 4, 11, 16, 23, 4, 11, 16, 23,
        6, 10, 15, 21, 6, 10, 15, 21, 6, 10, 15, 21, 6, 10, 15, 21>>

MD5_Init == <<<<26437, 8961>>, <<61389, 43913>>, <<39098, 56574>>, <<4146, 21622>>>>

\* the message padded to a multiple of 64 bytes
MD5_Pad(bytes) ==
    LET n == Len(bytes)
        zeros == (119 - (n % 64)) % 64
        bits == 8 * n
    IN  bytes \o <<128>> \o [i \in 1..zeros |-> 0]
        \o <<bits % 256, (bits \div 256) % 256, (bits \div 65536) % 256,
             (bits \div 16777216) % 256, 0, 0, 0, 0>>

\* word g (from 0) of block blk (from 0) of the padded message, little-endian
MD5_Word(padded, blk, g) ==
    LET o == 64 * blk + 4 * g
    IN  <<padded[o + 4] * 256 + padded[o + 3], padded[o + 2] * 256 + padded[o + 1]>>

\* one of the 64 operations on the state <<a, b, c, d>>
MD5_Step(st, padded, blk, i) ==
    LET a == st[1]
        b == st[2]
        cc == st[3]
        d == st[4]
        f == IF i < 16 THEN Or32(And32(b, cc), And32(Not32(b), d))
             ELSE IF i < 32 THEN Or32(And32(d, b), And32(Not32(d), cc))
             ELSE IF i < 48 THEN Xor32(Xor32(b, cc), d)
             ELSE Xor32(cc, Or32(b, Not32(d)))
        g == IF i < 16 THEN i
             ELSE IF i < 32 THEN (5 * i + 1) % 16
             ELSE IF i < 48 THEN (3 * i + 5) % 16
             ELSE (7 * i) % 16
        t == Add32(Add32(Add32(f, a), MD5_K[i + 1]), MD5_Word(padded, blk, g))
    IN  <<d, Add32(b, RotL(t, MD5_S[i + 1])), b, cc>>

\* operations lo..hi of one block. The range is halved, and the state after
\* the first half is compared so that it is evaluated before the second
\* half starts: the evaluation stays shallow
RECURSIVE MD5_Steps(_, _, _, _, _)
MD5_Steps(st, padded, blk, lo, hi) ==
    IF lo = hi THEN MD5_Step(st, padded, blk, lo)
    ELSE LET mid == (lo + hi) \div 2
             half == MD5_Steps(st, padded, blk, lo, mid)
         IN  IF Len(half) = 4
             THEN MD5_Steps(half, padded, blk, mid + 1, hi)
             ELSE half

MD5_Block(st, padded, blk) ==
    LET r == MD5_Steps(st, padded, blk, 0, 63)
    IN  [k \in 1..4 |-> Add32(st[k], r[k])]

RECURSIVE MD5_Blocks(_, _, _)
MD5_Blocks(st, padded, blk) ==
    IF 64 * blk >= Len(padded) THEN st
    ELSE MD5_Blocks(MD5_Block(st, padded, blk), padded, blk + 1)

HexSeq == <<"0", "1", "2", "3", "4", "5", "6", "7", "8", "9",
            "a", "b", "c", "d", "e", "f">>

HexByte(n) == <<HexSeq[(n \div 16) + 1], HexSeq[(n % 16) + 1]>>

\* line 53: hashlib.md5(base.encode("utf-8")).hexdigest()[:8], the first
\* four bytes of the digest
md5_hexdigest8(s) ==
    LET a == MD5_Blocks(MD5_Init, MD5_Pad(Concat([i \in 1..Len(s) |-> Utf8(s[i])])), 0)[1]
    IN  HexByte(a[2] % 256) \o HexByte(a[2] \div 256)
        \o HexByte(a[1] % 256) \o HexByte(a[1] \div 256)

\* the characters Windows forbids in a file name (line 49)
Reserved == {"\\", "/", ":", "*", "?", "\"", "<", ">", "|"}

safe_filename(raw, maxlen) ==
    LET b0 == to_snake_case(remove_accents(raw))
        b1 == Strip(SubRuns(b0, Reserved, <<"_">>), {" ", "."})
        base == IF b1 = <<>> THEN columna ELSE b1
    IN  IF Len(base) > maxlen
        THEN PyPrefix(base, maxlen - 9) \o <<"_">> \o md5_hexdigest8(base)
        ELSE base

----------------------------------------------------------------------------
(* Cells and tables                                                        *)
(*                                                                         *)
(* A cell is null, a number or a text. A number is an integer, a float or  *)
(* an infinity; the float m * 10^e is kept as its decimal mantissa and     *)
(* exponent (FloatCell(25, -1) stands for 2.5).                            *)
(* A DataFrame is [columns, data, index]: the column labels in order       *)
(* (labels may repeat), the rows in order, each row a sequence of cells    *)
(* aligned with columns, and the row labels.                               *)

NULL == <<"null">>
IntCell(n) == <<"int", n>>
FloatCell(m, e) == <<"float", m, e>>
InfCell(sign) == <<"inf", sign>>
\* the integer m * 10^e, m free of trailing zeros, beyond 2147483647
BigIntCell(m, e) == <<"bigint", m, e>>
TextCell(s) == <<"text", s>>

IsNull(x) == x[1] = "null"

DataFrame(cols, data, index) == [columns |-> cols, data |-> data, index |-> index]

RangeIndex(n) == [i \in 1..n |-> i - 1]

NRows(df) == Len(df.data)

\* the positions of label key among the columns of df, in order
Positions(df, key) ==
    SelectSeq([i \in 1..Len(df.columns) |-> i], LAMBDA i : df.columns[i] = key)

\* df[key] = value, value a scalar: an existing column (every column of
\* that label) is overwritten in place, a new one is appended
SetColumn(df, key, value) ==
    IF key \in Range(df.columns)
    THEN [df EXCEPT !.data =
            [r \in 1..Len(df.data) |->
                [j \in 1..Len(df.columns) |->
                    IF df.columns[j] = key THEN value ELSE df.data[r][j]]]]
    ELSE [df EXCEPT !.columns = Append(df.columns, key),
                    !.data = [r \in 1..Len(df.data) |-> Append(df.data[r], value)]]

\* df[keys], keys a list of labels: for each key in turn, every column of
\* that label
SelectColumns(df, keys) ==
    LET PosOf(key) == Positions(df, key)
        pos == Concat([k \in 1..Len(keys) |-> PosOf(keys[k])])
    IN  [df EXCEPT !.columns = [k \in 1..Len(pos) |-> df.columns[pos[k]]],
                   !.data = [r \in 1..Len(df.data) |->
                                [k \in 1..Len(pos) |-> df.data[r][pos[k]]]]]

----------------------------------------------------------------------------
(* Carga Excel (todas las hojas) y unificacion *)

_sheet == <<"_", "s", "h", "e", "e", "t">>

\* line 75: the headers of every sheet normalized; a dict in insertion
\* order is a sequence of [sheet, df]
frames_norm(fr) ==
    [i \in 1..Len(fr) |->
        [sheet |-> fr[i].sheet,
         df |-> [fr[i].df EXCEPT !.columns = normalize_headers(fr[i].df.columns)]]]

\* lines 77-79: the set all_cols
all_cols_set(fr) == UNION {Range(frames_norm(fr)[i].df.columns) : i \in 1..Len(fr)}

\* line 80: list(all_cols) enumerates the set in an order of the
\* interpreter's choosing
Orders(S) ==
    {o \in [1..Cardinality(S) -> S] : \A i, j \in 1..Cardinality(S) : i # j => o[i] # o[j]}

\* lines 85-87: the columns of all_cols the sheet lacks are added, null
RECURSIVE AddMissing(_, _)
AddMissing(df, cols) ==
    IF cols = <<>> THEN df
    ELSE AddMissing(IF Head(cols) \notin Range(df.columns)
                    THEN SetColumn(df, Head(cols), NULL)
                    ELSE df,
                    Tail(cols))

\* line 89: tmp["_sheet"] = sh
TagSheet(df, sh) == SetColumn(df, _sheet, TextCell(sh))

\* lines 85-87 with the missing columns filled with the number 0
AlignZeroFill(df, all_cols, sh) ==
    LET Fill(d, key) ==
            IF key \in Range(d.columns) THEN d ELSE SetColumn(d, key, IntCell(0))
        RECURSIVE Go(_, _)
        Go(d, cols) == IF cols = <<>> THEN d ELSE Go(Fill(d, Head(cols)), Tail(cols))
    IN  TagSheet(SelectColumns(Go(df, all_cols), all_cols), sh)

\* lines 84-89: one sheet aligned to all_cols and tagged with its name
Align(df, all_cols, sh) ==
    TagSheet(SelectColumns(AddMissing(df, all_cols), all_cols), sh)

RECURSIVE ConcatRows(_)
ConcatRows(dfs) ==
    IF dfs = <<>> THEN <<>> ELSE Head(dfs).data \o ConcatRows(Tail(dfs))

RECURSIVE ConcatIndex(_)
ConcatIndex(dfs) ==
    IF dfs = <<>> THEN <<>> ELSE Head(dfs).index \o ConcatIndex(Tail(dfs))

\* the labels of all the tables, each once, in order of first appearance
RECURSIVE UnionLabels(_, _)
UnionLabels(labels, acc) ==
    IF labels = <<>> THEN acc
    ELSE UnionLabels(Tail(labels),
                     IF Head(labels) \in Range(acc) THEN acc
                     ELSE Append(acc, Head(labels)))


\* pd.concat(dfs, ignore_index=True) with the row labels kept
pd_concat_keep_index(dfs) ==
    IF dfs = <<>> THEN [err |-> "ValueError: no objects to concatenate", df |-> NULL]
    ELSE [err |-> "none",
          df |-> DataFrame(dfs[1].columns, ConcatRows(dfs), ConcatIndex(dfs))]

\* pd.concat(dfs, ignore_index=True) along the rows: no table is an error;
\* tables of equal columns are stacked; otherwise every table is reindexed
\* to the union of the labels, which fails for a table whose labels repeat
pd_concat(dfs) ==
    IF dfs = <<>> THEN [err |-> "ValueError: no objects to concatenate", df |-> NULL]
    ELSE IF \A i \in 1..Len(dfs) : dfs[i].columns = dfs[1].columns
    THEN LET data == ConcatRows(dfs)
         IN  [err |-> "none",
              df |-> DataFrame(dfs[1].columns, data, RangeIndex(Len(data)))]
    ELSE IF \E i \in 1..Len(dfs) : \E j, k \in 1..Len(dfs[i].columns) :
                j # k /\ dfs[i].columns[j] = dfs[i].columns[k]
    THEN [err |-> "InvalidIndexError", df |-> NULL]
    ELSE LET LabelsOf(d) == d.columns
             labels == UnionLabels(Concat([k \in 1..Len(dfs) |-> LabelsOf(dfs[k])]), <<>>)
             re == [i \in 1..Len(dfs) |->
                       SelectColumns(AddMissing(dfs[i], labels), labels)]
             data == ConcatRows(re)
         IN  [err |-> "none", df |-> DataFrame(labels, data, RangeIndex(Len(data)))]

\* unify_sheets(frames), all_cols being list(all_cols) of line 80
unify_sheets(fr, all_cols) ==
    LET fn == frames_norm(fr)
        aligned == [i \in 1..Len(fn) |-> Align(fn[i].df, all_cols, fn[i].sheet)]
    IN  pd_concat(aligned)

----------------------------------------------------------------------------
(* Tipado SIMPLE (numerico vs string) *)

RECURSIVE StrToInt(_, _)
StrToInt(s, acc) ==
    IF s = <<>> THEN acc
    ELSE StrToInt(Tail(s),
                  acc * 10 + (CHOOSE d \in 0..9 : DigitSeq[d + 1] = Head(s)))

AllDigits(s) == \A i \in 1..Len(s) : s[i] \in Digits

Abs(n) == IF n < 0 THEN -n ELSE n

\* the number m * 10^e written with m free of trailing zeros (0 is 0 * 10^0)
RECURSIVE Decimal(_, _)
Decimal(m, e) ==
    IF m = 0 THEN <<"num", 0, 0>>
    ELSE IF m % 10 = 0 THEN Decimal(m \div 10, e + 1)
    ELSE <<"num", m, e>>

\* the double of the decimal number d, m * 10^e with m free of trailing
\* zeros and of 10 digits at most: a value that rounds beyond the largest
\* double, 1.7976931348623157e308, does not parse, and one that rounds
\* below the smallest, 4.94e-324 (at most half of it, 2.4703282292e-324),
\* is 0. A subnormal keeps its decimal digits
AsDouble(d) ==
    LET a == Abs(d[2])
        digits == Len(IntToStr(a))
        adjusted == digits - 1 + d[3]
        lead == IF digits = 10 THEN a \div 10 ELSE a * 10 ^ (9 - digits)
    IN  IF a = 0 THEN d
        ELSE IF adjusted > 308 \/ (adjusted = 308 /\ lead > 179769313)
                \/ (adjusted = 308 /\ digits = 10 /\ a > 1797693134)
        THEN <<"nan">>
        ELSE IF adjusted < -324
                \/ (adjusted = -324 /\ (digits = 10 \/ lead <= 247032822))
        THEN <<"num", 0, 0>>
        ELSE d

\* the number of a numeral that is already split: its sign, the digits
\* before and after the ".", the sign and the digits of the exponent. The
\* parser refuses a decimal exponent above 308, whatever the digits are,
\* and gives 0 below -616; in between the digits are scaled, which may
\* overflow or underflow. The digits of a numeral are 17 at most and,
\* leading zeros aside, fit a machine integer, as do those of the exponent
NumberOf(sign, whole, frac, exSign, exDigits) ==
    LET exponent == exSign * StrToInt(exDigits, 0) - Len(frac)
    IN  IF exponent > 308 THEN <<"nan">>
        ELSE IF exponent < -616 THEN <<"num", 0, 0>>
        ELSE AsDouble(Decimal(sign * StrToInt(whole \o frac, 0), exponent))

\* the digits of a numeral: digits with an optional "." among them, one
\* digit at least; the exponent, when there is one, has one digit at least
ParseDigits(sign, mant, hasExp, exSign, exDigits) ==
    LET dots == {i \in 1..Len(mant) : mant[i] = "."}
        cut == IF dots = {} THEN Len(mant) + 1 ELSE Min(dots)
        whole == SubSeq(mant, 1, cut - 1)
        frac == SubSeq(mant, cut + 1, Len(mant))
    IN  IF /\ AllDigits(whole \o frac)
           /\ Len(whole) + Len(frac) > 0
           /\ hasExp => (exDigits # <<>> /\ AllDigits(exDigits))
        THEN NumberOf(sign, whole, frac, exSign, exDigits)
        ELSE <<"nan">>

\* a numeral without the blanks around it: an optional sign, the mantissa,
\* then an optional exponent made of e or E, an optional sign and digits
ParseNumeral(t) ==
    LET signed == t # <<>> /\ t[1] \in {"+", "-"}
        r == IF signed THEN Tail(t) ELSE t
        es == {i \in 1..Len(r) : r[i] \in {"e", "E"}}
        cut == IF es = {} THEN Len(r) + 1 ELSE Min(es)
        ex == SubSeq(r, cut + 1, Len(r))
        exSigned == ex # <<>> /\ ex[1] \in {"+", "-"}
    IN  ParseDigits(IF signed /\ t[1] = "-" THEN -1 ELSE 1,
                    SubSeq(r, 1, cut - 1), es # {},
                    IF exSigned /\ ex[1] = "-" THEN -1 ELSE 1,
                    IF exSigned THEN Tail(ex) ELSE ex)

\* the number a text parses to: blanks around a numeral are skipped; a
\* text that is no numeral is an infinity when it is, whatever the case,
\* "inf" or "infinity" with an optional sign; any other text is <<"nan">>
ParseNumber(s) ==
    LET n == ParseNumeral(Strip(s, Spaces))
        low == LowerSeq(s)
        signed == low # <<>> /\ low[1] \in {"+", "-"}
    IN  IF n[1] # "nan" THEN n
        ELSE IF (IF signed THEN Tail(low) ELSE low)
                    \in {<<"i", "n", "f">>, <<"i", "n", "f", "i", "n", "i", "t", "y">>}
        THEN <<"inf", IF signed /\ low[1] = "-" THEN -1 ELSE 1>>
        ELSE <<"nan">>

\* pd.to_numeric(x, errors="coerce") of one cell: <<"num", m, e>> for the
\* number m * 10^e, <<"inf", sign>> or <<"nan">>
to_numeric(x) ==
    CASE x[1] = "int" -> Decimal(x[2], 0)
      [] x[1] = "bigint" -> <<"num", x[2], x[3]>>
      [] x[1] = "float" -> <<"num", x[2], x[3]>>
      [] x[1] = "inf" -> <<"inf", x[2]>>
      [] x[1] = "text" -> ParseNumber(x[2])
      [] OTHER -> <<"nan">>

\* notna() of a converted cell
IsNumber(n) == n[1] # "nan"

\* n % 1 == 0 of a converted cell
IsWhole(n) == n[1] = "num" /\ n[3] >= 0

\* a dict in insertion order is a sequence of <<key, value>>
DictKeys(d) == [i \in 1..Len(d) |-> d[i][1]]

DictSet(d, k, v) ==
    IF k \in Range(DictKeys(d))
    THEN [i \in 1..Len(d) |-> IF d[i][1] = k THEN <<k, v>> ELSE d[i]]
    ELSE Append(d, <<k, v>>)

DictGet(d, k) == d[CHOOSE i \in 1..Len(d) : d[i][1] = k][2]

\* lines 108-118 for a column that is a Series (its label occurs once)
SeriesType(cells) ==
    LET nonnull == SelectSeq(cells, LAMBDA x : ~IsNull(x))
        nums == [i \in 1..Len(nonnull) |-> to_numeric(nonnull[i])]
    IN  IF nonnull = <<>> THEN "string"
        ELSE IF \A i \in 1..Len(nums) : IsNumber(nums[i])
        THEN IF \A i \in 1..Len(nums) : IsWhole(nums[i]) THEN "int" ELSE "float"
        ELSE "string"

\* the cells of the column at position j
ColumnCells(df, j) == [r \in 1..Len(df.data) |-> df.data[r][j]]

\* lines 104-118 for the column label key: its type, or "TypeError".
\* df[key] of a label that repeats is a DataFrame: dropna() drops every row
\* that holds a null, and pd.to_numeric refuses a DataFrame
ColumnType(df, key) ==
    LET pos == Positions(df, key)
    IN  IF key = _sheet THEN "string"
        ELSE IF Len(pos) = 1 THEN SeriesType(ColumnCells(df, pos[1]))
        ELSE IF \A r \in 1..Len(df.data) :
                   \E k \in 1..Len(pos) : IsNull(df.data[r][pos[k]])
        THEN "string"
        ELSE "TypeError"

RECURSIVE BuildOverrides(_, _, _)
BuildOverrides(df, j, overrides) ==
    IF j > Len(df.columns) THEN [err |-> "none", dtypes |-> overrides]
    ELSE LET t == ColumnType(df, df.columns[j])
         IN  IF t = "TypeError" THEN [err |-> "TypeError", dtypes |-> <<>>]
             ELSE BuildOverrides(df, j + 1, DictSet(overrides, df.columns[j], t))

build_simple_dtypes(df) == BuildOverrides(df, 1, <<>>)

\* str(x) of the float m * 10^e, m free of trailing zeros: the shortest
\* digits, in positional notation when the decimal exponent is from -4 to
\* 15 and in exponent notation otherwise
FloatToStr(m, e) ==
    LET digs == IntToStr(Abs(m))
        n == Len(digs)
        x == n - 1 + e
        sign == IF m < 0 THEN <<"-">> ELSE <<>>
        zeros(k) == [i \in 1..k |-> "0"]
        xs == IntToStr(Abs(x))
    IN  IF m = 0 THEN <<"0", ".", "0">>
        ELSE IF x >= -4 /\ x < 16
        THEN IF e >= 0 THEN sign \o digs \o zeros(e) \o <<".", "0">>
             ELSE IF n > -e
             THEN sign \o SubSeq(digs, 1, n + e) \o <<".">> \o SubSeq(digs, n + e + 1, n)
             ELSE sign \o <<"0", ".">> \o zeros(-e - n) \o digs
        ELSE sign \o <<digs[1]>>
             \o (IF n > 1 THEN <<".">> \o Tail(digs) ELSE <<>>)
             \o <<"e", IF x < 0 THEN "-" ELSE "+">>
             \o (IF Len(xs) < 2 THEN <<"0">> ELSE <<>>) \o xs

\* astype("string") of one cell
AsString(x) ==
    CASE x[1] = "int" ->
           TextCell(IF x[2] < 0 THEN <<"-">> \o IntToStr(-x[2]) ELSE IntToStr(x[2]))
      [] x[1] = "bigint" ->
           TextCell((IF x[2] < 0 THEN <<"-">> ELSE <<>>) \o IntToStr(Abs(x[2]))
                        \o [i \in 1..x[3] |-> "0"])
      [] x[1] = "float" -> TextCell(FloatToStr(x[2], x[3]))
      [] x[1] = "inf" -> TextCell((IF x[2] < 0 THEN <<"-">> ELSE <<>>) \o <<"i", "n", "f">>)
      [] OTHER -> x

\* pd.to_numeric(errors="coerce") of one cell, as a float cell
AsFloat(x) ==
    LET n == to_numeric(x)
    IN  IF n[1] = "num" THEN FloatCell(n[2], n[3])
        ELSE IF n[1] = "inf" THEN InfCell(n[2])
        ELSE NULL

\* a whole number that is less than 2^63 = 9223372036854775808 in size:
\* the cast to Int64 refuses any other float. A mantissa of 10 digits is a
\* machine integer, which is below 9223372036
FitsInt64(n) ==
    LET digits == Len(IntToStr(Abs(n[2])))
    IN  /\ IsWhole(n)
        /\ \/ digits + n[3] < 19
           \/ /\ digits + n[3] = 19
              /\ (digits = 10 \/ Abs(n[2]) * 10 ^ (9 - digits) <= 922337203)

\* .astype("Int64") of a float cell that holds a whole number: an integer
\* cell or, beyond the machine integers (2147483647), a BigIntCell
AsInt64(x) ==
    LET digits == Len(IntToStr(Abs(x[2])))
    IN  IF IsNull(x) THEN NULL
        ELSE IF \/ digits + x[3] < 10
                \/ (digits + x[3] = 10 /\ x[3] = 0)
                \/ (digits + x[3] = 10 /\ Abs(x[2]) * 10 ^ (9 - digits) <= 214748364)
        THEN IntCell(x[2] * 10 ^ x[3])
        ELSE BigIntCell(x[2], x[3])

\* pd.to_numeric gives an integer column, and not a float column, in two
\* cases. When the first cell is an integer, the whole column is cast to
\* int64 and kept if the cast changes no value: every cell is then an
\* integer or a whole float that int64 can hold. Otherwise the cells are
\* read one by one, and the column is an integer column when every cell is
\* an integer (an integer, or a text of digits with an optional sign and
\* blanks around it) that int64 or uint64 can hold, and no cell is
\* negative when one is beyond int64. The bounds are
\* 2^63 = 9223372036854775808 and 2^64 = 18446744073709551616; a mantissa
\* of 10 digits is a machine integer, which is below 9223372036
IsIntegerColumn(cells) ==
    LET IntLike(x) ==
            LET t == Strip(x[2], Spaces)
                r == IF t # <<>> /\ t[1] \in {"+", "-"} THEN Tail(t) ELSE t
            IN  \/ x[1] \in {"int", "bigint"}
                \/ (x[1] = "text" /\ r # <<>> /\ AllDigits(r))
        Beyond(n, size, lead9, lead10) ==
            LET a == Abs(n[2])
                digits == Len(IntToStr(a))
            IN  \/ digits + n[3] > size
                \/ /\ digits + n[3] = size
                   /\ IF digits = 10 THEN a > lead10
                      ELSE a * 10 ^ (9 - digits) > lead9
        Beyond63(n) == Beyond(n, 19, 922337203, 2147483647)
        Beyond64(n) == Beyond(n, 20, 184467440, 1844674407)
        Value(i) == to_numeric(cells[i])
    IN  \/ /\ cells # <<>>
           /\ cells[1][1] \in {"int", "bigint"}
           /\ \A i \in 1..Len(cells) :
                 /\ cells[i][1] \in {"int", "bigint", "float"}
                 /\ FitsInt64(Value(i))
        \/ /\ \A i \in 1..Len(cells) : IntLike(cells[i])
           /\ \A i \in 1..Len(cells) :
                 IF Value(i)[2] < 0 THEN ~Beyond63(Value(i)) ELSE ~Beyond64(Value(i))
           /\ ~ /\ \E i \in 1..Len(cells) : Value(i)[2] < 0
                /\ \E i \in 1..Len(cells) : Beyond63(Value(i))

\* lines 126-137 for one column label and its type. pd.to_numeric gives an
\* integer column or a float column (IsIntegerColumn); a cast that raises
\* leaves the column to the except branch
ApplyOne(df, key, t) ==
    LET Map(Op(_)) ==
            [df EXCEPT !.data =
                [r \in 1..Len(df.data) |->
                    [j \in 1..Len(df.columns) |->
                        IF df.columns[j] = key THEN Op(df.data[r][j])
                        ELSE df.data[r][j]]]]
        ToInt64(x) == AsInt64(AsFloat(x))
        InColumn(P(_)) == \A r \in 1..Len(df.data) : \A j \in 1..Len(df.columns) :
                              df.columns[j] = key => P(df.data[r][j])
        Safe(x) == IsNull(AsFloat(x)) \/ FitsInt64(to_numeric(x))
        single == Len(Positions(df, key)) = 1
    IN  IF t = "int" /\ single /\ InColumn(Safe) THEN Map(ToInt64)
        ELSE IF t = "float" /\ single
        THEN IF IsIntegerColumn(ColumnCells(df, Positions(df, key)[1]))
             THEN Map(ToInt64) ELSE Map(AsFloat)
        ELSE Map(AsString)

RECURSIVE ApplyAll(_, _)
ApplyAll(df, dtypes) ==
    IF dtypes = <<>> THEN df
    ELSE LET col == Head(dtypes)[1]
             t == Head(dtypes)[2]
         IN  ApplyAll(IF col \in Range(df.columns) THEN ApplyOne(df, col, t) ELSE df,
                      Tail(dtypes))

apply_dtypes(df, dtypes) == ApplyAll(df, dtypes)

----------------------------------------------------------------------------
(* Reading the input file *)

ALL == <<"str", <<"a", "l", "l">>>>

\* the sheets of a workbook: a sequence of [sheet, df]
SheetNames(wb) == [i \in 1..Len(wb) |-> wb[i].sheet]

SheetOf(wb, sh) == wb[CHOOSE i \in 1..Len(wb) : wb[i].sheet = sh].df

\* line 69: the dict comprehension over sheets, from position i on.
\* Each pd.read_excel reads the file again; a name the workbook lacks
\* ends the comprehension with an error
RECURSIVE ReadSheets(_, _, _, _, _)
ReadSheets(wb, sheets, i, acc, log) ==
    IF i > Len(sheets) THEN [err |-> "none", frames |-> acc, io |-> log]
    ELSE LET sh == sheets[i]
             log2 == Append(log, <<"read_excel", sh>>)
         IN  IF sh \notin Range(SheetNames(wb))
             THEN [err |-> "ValueError: worksheet not found", frames |-> <<>>, io |-> log2]
             ELSE LET entry == [sheet |-> sh, df |-> SheetOf(wb, sh)]
                      acc2 == IF \E k \in 1..Len(acc) : acc[k].sheet = sh
                              THEN [k \in 1..Len(acc) |->
                                       IF acc[k].sheet = sh THEN entry ELSE acc[k]]
                              ELSE Append(acc, entry)
                  IN  ReadSheets(wb, sheets, i + 1, acc2, log2)

\* read_excel_all_sheets with the selection validated before the file is
\* opened
read_excel_validating_first(f, wb, cfg) ==
    IF cfg # ALL /\ cfg[1] # "list"
    THEN [err |-> "ValueError: sheets_cfg", frames |-> <<>>, io |-> <<>>]
    ELSE IF f = "missing"
    THEN [err |-> "FileNotFoundError", frames |-> <<>>, io |-> <<<<"ExcelFile">>>>]
    ELSE IF f = "unreadable"
    THEN [err |-> "UnreadableFile", frames |-> <<>>, io |-> <<<<"ExcelFile">>>>]
    ELSE ReadSheets(wb, IF cfg = ALL THEN SheetNames(wb) ELSE cfg[2], 1, <<>>,
                    <<<<"ExcelFile">>>>)

\* read_excel_all_sheets(path, sheets_cfg): f is the state of the path, wb
\* the workbook stored there. The result holds the accesses made to the
\* file: pd.ExcelFile opens and parses it, each pd.read_excel reads a sheet
read_excel_all_sheets(f, wb, cfg) ==
    IF f = "missing"
    THEN [err |-> "FileNotFoundError", frames |-> <<>>, io |-> <<<<"ExcelFile">>>>]
    ELSE IF f = "unreadable"
    THEN [err |-> "UnreadableFile", frames |-> <<>>, io |-> <<<<"ExcelFile">>>>]
    ELSE IF cfg = ALL
    THEN ReadSheets(wb, SheetNames(wb), 1, <<>>, <<<<"ExcelFile">>>>)
    ELSE IF cfg[1] = "list"
    THEN ReadSheets(wb, cfg[2], 1, <<>>, <<<<"ExcelFile">>>>)
    ELSE [err |-> "ValueError: sheets_cfg", frames |-> <<>>, io |-> <<<<"ExcelFile">>>>]

----------------------------------------------------------------------------
(* Exportaciones *)

DefaultMaxLen == 100

MasterCsv == <<"master.csv">>
DtypesJson == <<"inferred_dtypes.json">>
ColumnCsv(candidate) == <<"columns", candidate>>

\* lines 157-161 with the directory not looked at
FreeNameUsedOnly(fname, candidate, i, usedNames, files) ==
    LET RECURSIVE Go(_, _)
        Go(cand, k) ==
            IF cand \in usedNames
            THEN Go(fname \o <<"_">> \o IntToStr(k + 1), k + 1)
            ELSE cand
    IN  Go(candidate, i)

\* lines 157-161: the first of fname, fname_2, fname_3, ... that is neither
\* used in this call nor the name of a file of the directory
RECURSIVE FreeName(_, _, _, _, _)
FreeName(fname, candidate, i, usedNames, files) ==
    IF candidate \in usedNames \/ ColumnCsv(candidate) \in files
    THEN FreeName(fname, fname \o <<"_">> \o IntToStr(i + 1), i + 1, usedNames, files)
    ELSE candidate

----------------------------------------------------------------------------
(* The steps of main and of the functions it calls *)

\* how a write to a file path ends: the file is written in full; or the
\* directory or the file cannot be created and nothing is left; or the file
\* is created and the write or the close fails, which leaves it partial.
\* The last two raise an OSError
WriteOutcomes == {"written", "not created", "left partial"}

\* an exception is raised and not caught by the function
Fail(e) ==
    /\ pc' = "raised"
    /\ err' = e
    /\ UNCHANGED exit_status

\* lines 175-177
CheckPath ==
    /\ pc = "main"
    /\ IF file = "missing"
       THEN /\ pc' = "exited"
            /\ exit_status' = 1
       ELSE /\ pc' = "read"
            /\ UNCHANGED exit_status
    /\ UNCHANGED <<err, nameVars, readVars, tableVars, exportVars>>

\* line 180, lines 61-70
ReadExcel ==
    /\ pc = "read"
    /\ LET r == read_excel_all_sheets(file, workbook, sheets_cfg)
       IN  /\ io' = io \o r.io
           /\ IF r.err = "none"
              THEN /\ frames' = r.frames
                   /\ pc' = "unify"
                   /\ UNCHANGED <<err, exit_status>>
              ELSE /\ Fail(r.err)
                   /\ UNCHANGED frames
    /\ UNCHANGED <<nameVars, file, workbook, sheets_cfg, master, inferred, exportVars>>

\* line 183, lines 72-91
Unify ==
    /\ pc = "unify"
    /\ \E all_cols \in Orders(all_cols_set(frames)) :
          LET r == unify_sheets(frames, all_cols)
          IN  IF r.err = "none"
              THEN /\ master' = r.df
                   /\ pc' = "infer"
                   /\ UNCHANGED <<err, exit_status>>
              ELSE /\ Fail(r.err)
                   /\ UNCHANGED master
    /\ UNCHANGED <<nameVars, readVars, frames, inferred, exportVars>>

\* line 186, lines 97-119
BuildDtypes ==
    /\ pc = "infer"
    /\ LET r == build_simple_dtypes(master)
       IN  IF r.err = "none"
           THEN /\ inferred' = r.dtypes
                /\ pc' = "apply"
                /\ UNCHANGED <<err, exit_status>>
           ELSE /\ Fail(r.err)
                /\ UNCHANGED inferred
    /\ UNCHANGED <<nameVars, readVars, frames, master, exportVars>>

\* line 187, lines 121-138
ApplyDtypes ==
    /\ pc = "apply"
    /\ master' = apply_dtypes(master, inferred)
    /\ pc' = "export_master"
    /\ UNCHANGED <<err, nameVars, readVars, frames, inferred, exportVars, exit_status>>

\* line 190, lines 147-149: ensure_dir, then to_csv
ExportMaster ==
    /\ pc = "export_master"
    /\ \E o \in WriteOutcomes :
          /\ disk' = IF o = "not created" THEN disk ELSE disk \cup {MasterCsv}
          /\ IF o = "written"
             THEN /\ written' = Append(written, MasterCsv)
                  /\ pc' = "export_columns_begin"
                  /\ UNCHANGED <<err, exit_status>>
             ELSE /\ Fail("OSError")
                  /\ UNCHANGED written
    /\ UNCHANGED <<nameVars, readVars, tableVars, used, col_i>>

\* line 191, lines 152-154: ensure_dir(col_dir) creates the directory or
\* raises an OSError; used = set()
ExportColumnsBegin ==
    /\ pc = "export_columns_begin"
    /\ \E ok \in BOOLEAN :
          IF ok
          THEN /\ used' = {}
               /\ col_i' = 0
               /\ pc' = "export_columns"
               /\ UNCHANGED <<err, exit_status>>
          ELSE /\ Fail("OSError")
               /\ UNCHANGED <<used, col_i>>
    /\ UNCHANGED <<nameVars, readVars, tableVars, disk, written>>

\* lines 155-164, one turn of the loop. A label that repeats makes df[col]
\* a DataFrame, which the DataFrame constructor refuses as a column; the
\* write succeeds, or fails with an OSError
ExportColumn ==
    /\ pc = "export_columns"
    /\ col_i < Len(master.columns)
    /\ LET col == master.columns[col_i + 1]
           fname == safe_filename(col, DefaultMaxLen)
           candidate == FreeName(fname, fname, 1, used, disk)
       IN  /\ used' = used \cup {candidate}
           /\ IF Len(Positions(master, col)) > 1
              THEN /\ Fail("ValueError: column is 2-dimensional")
                   /\ UNCHANGED <<disk, written, col_i>>
              ELSE \E o \in WriteOutcomes :
                      /\ disk' = IF o = "not created" THEN disk
                                 ELSE disk \cup {ColumnCsv(candidate)}
                      /\ IF o = "written"
                         THEN /\ written' = Append(written, ColumnCsv(candidate))
                              /\ col_i' = col_i + 1
                              /\ UNCHANGED <<pc, err, exit_status>>
                         ELSE /\ Fail("OSError")
                              /\ UNCHANGED <<written, col_i>>
    /\ UNCHANGED <<nameVars, readVars, tableVars>>

\* line 155: the loop ends
ExportColumnsEnd ==
    /\ pc = "export_columns"
    /\ col_i = Len(master.columns)
    /\ pc' = "export_json"
    /\ UNCHANGED <<err, nameVars, readVars, tableVars, exportVars, exit_status>>

\* lines 194-196 with a failed write passed over in silence
WriteJsonQuietly ==
    /\ pc = "export_json"
    /\ \E o \in WriteOutcomes :
          /\ disk' = IF o = "not created" THEN disk ELSE disk \cup {DtypesJson}
          /\ IF o = "written"
             THEN written' = Append(written, DtypesJson)
             ELSE UNCHANGED written
    /\ pc' = "summary"
    /\ UNCHANGED <<err, exit_status, nameVars, readVars, tableVars, used, col_i>>

\* lines 194-196: open(..., "w") creates or truncates the file, json.dump
\* writes it
WriteJson ==
    /\ pc = "export_json"
    /\ \E o \in WriteOutcomes :
          /\ disk' = IF o = "not created" THEN disk ELSE disk \cup {DtypesJson}
          /\ IF o = "written"
             THEN /\ written' = Append(written, DtypesJson)
                  /\ pc' = "summary"
                  /\ UNCHANGED <<err, exit_status>>
             ELSE /\ Fail("OSError")
                  /\ UNCHANGED written
    /\ UNCHANGED <<nameVars, readVars, tableVars, used, col_i>>

\* lines 206-207: main catches nothing, the exception ends the process
Uncaught ==
    /\ pc = "raised"
    /\ pc' = "exited"
    /\ exit_status' = 1
    /\ UNCHANGED <<err, nameVars, readVars, tableVars, exportVars>>

\* lines 198-204: the summary is printed and the process ends
Summary ==
    /\ pc = "summary"
    /\ pc' = "exited"
    /\ exit_status' = 0
    /\ UNCHANGED <<err, nameVars, readVars, tableVars, exportVars>>

----------------------------------------------------------------------------
(* Inputs *)

Alphabet == {"a", "A", "a^", "^", "1", "_", "-", " ", "!"}

RECURSIVE SeqsUpTo(_, _)
SeqsUpTo(S, n) ==
    IF n = 0 THEN {<<>>}
    ELSE LET shorter == SeqsUpTo(S, n - 1)
         IN  shorter \cup {Append(s, x) : s \in shorter, x \in S}

Repeat(ch, n) == [i \in 1..n |-> ch]

EmptyFrame == DataFrame(<<>>, <<>>, <<>>)

NamesIdle ==
    /\ c = <<>>
    /\ name = <<>>
    /\ max_len = 0
    /\ columns = <<>>
    /\ new_cols = <<>>

ReadIdle ==
    /\ file = "ok"
    /\ workbook = <<>>
    /\ sheets_cfg = ALL
    /\ io = <<>>

TablesIdle ==
    /\ frames = <<>>
    /\ master = EmptyFrame
    /\ inferred = <<>>

ExportIdle ==
    /\ disk = {}
    /\ used = {}
    /\ col_i = 0
    /\ written = <<>>

Running ==
    /\ err = "none"
    /\ exit_status = -1

\* raw headers
h_a == <<"a">>
h_A == <<"A">>
h_b == <<"b">>
h_acc == <<" ", "a^">>
h_a1 == <<"a", "_", "1">>
h_a2 == <<"a", "_", "2">>
h_a3 == <<"a", "_", "3">>

A == <<"A">>
B == <<"B">>

\* a sheet of n rows under the headers cols whose cells tell their sheet,
\* row and column
TaggedSheet(cols, n, si) ==
    DataFrame(cols,
              [r \in 1..n |-> [j \in 1..Len(cols) |-> IntCell(100 * si + 10 * r + j)]],
              RangeIndex(n))

HeaderLists ==
    {<<>>, <<h_a>>, <<h_b>>, <<h_A, h_a>>, <<h_a, h_b>>, <<h_acc, h_b>>,
     <<_sheet>>, <<h_b, _sheet>>, <<h_a, h_A, h_a1>>}

TaggedSheets(si) ==
    {TaggedSheet(cols, n, si) : cols \in HeaderLists \ {<<>>}, n \in 0..MaxRows}
        \cup {TaggedSheet(<<>>, 0, si)}

CellPool ==
    {NULL, IntCell(1), FloatCell(25, -1), TextCell(<<"-", "3", "e", "1">>),
     TextCell(<<"x">>)}

TypedSheets(lists) ==
    UNION {{DataFrame(cols, data, RangeIndex(Len(data))) :
                data \in SeqsUpTo([1..Len(cols) -> CellPool], MaxRows)} :
           cols \in lists}

----------------------------------------------------------------------------
(* Specification SpecNorm: the normalization of one header *)

InitNorm ==
    /\ pc = "normalize"
    /\ c \in SeqsUpTo(Alphabet, MaxLen)
    /\ name = <<>>
    /\ max_len = 0
    /\ columns = <<>>
    /\ new_cols = <<>>
    /\ ReadIdle /\ TablesIdle /\ ExportIdle /\ Running

\* lines 28-30
Normalize ==
    /\ pc = "normalize"
    /\ name' = normalize(c)
    /\ pc' = "returned"
    /\ UNCHANGED <<err, c, max_len, columns, new_cols, readVars, tableVars,
                   exportVars, exit_status>>

NextNorm == Normalize

SpecNorm == InitNorm /\ [][NextNorm]_vars

\* C8: normalizing a normalized header (accents stripped, snake case, the
\* fallback "columna") yields the same text again.
C8_Idempotent == pc = "returned" => normalize(name) = name

C8_Witness ==
    /\ pc = "returned"
    /\ c = <<"A", "-", " ", "a^">>
    /\ name = <<"a", "_", "a">>

----------------------------------------------------------------------------
(* Specification SpecHeaders: normalize_headers on the headers of a sheet *)

HdrAlphabet == {"a", "A", "_", "1"}

InitHeaders ==
    /\ pc = "normalize_headers"
    /\ columns \in SeqsUpTo(SeqsUpTo(HdrAlphabet, MaxHdrLen), MaxHeaders)
    /\ new_cols = <<>>
    /\ c = <<>>
    /\ name = <<>>
    /\ max_len = 0
    /\ ReadIdle /\ TablesIdle /\ ExportIdle /\ Running

\* lines 23-39
NormalizeHeaders ==
    /\ pc = "normalize_headers"
    /\ new_cols' = normalize_headers(columns)
    /\ pc' = "returned"
    /\ UNCHANGED <<err, c, name, max_len, columns, readVars, tableVars,
                   exportVars, exit_status>>

NextHeaders == NormalizeHeaders

SpecHeaders == InitHeaders /\ [][NextHeaders]_vars

\* C1: the names normalize_headers produces for the headers of one sheet
\* are non-empty and pairwise distinct.
C1_DistinctNonEmpty ==
    pc = "returned" =>
        /\ Len(new_cols) = Len(columns)
        /\ \A i \in 1..Len(new_cols) : new_cols[i] # <<>>
        /\ \A i, j \in 1..Len(new_cols) : i # j => new_cols[i] # new_cols[j]

----------------------------------------------------------------------------
(* Specification SpecFile: safe_filename on one name *)

FileAlphabet == {"a", "A", "a^", "_", " ", "/", "."}

InitFile ==
    /\ pc = "safe_filename"
    /\ \E p \in SeqsUpTo(FileAlphabet, MaxPrefix), k \in 0..MaxPad :
           c = p \o Repeat("a", k)
    /\ max_len \in 1..MaxMaxLen
    /\ name = <<>>
    /\ columns = <<>>
    /\ new_cols = <<>>
    /\ ReadIdle /\ TablesIdle /\ ExportIdle /\ Running

\* lines 41-55
SafeFilename ==
    /\ pc = "safe_filename"
    /\ name' = safe_filename(c, max_len)
    /\ pc' = "returned"
    /\ UNCHANGED <<err, c, max_len, columns, new_cols, readVars, tableVars,
                   exportVars, exit_status>>

NextFile == SafeFilename

SpecFile == InitFile /\ [][NextFile]_vars

\* C6: for every name and every positive max_len, the text returned by
\* safe_filename(name, max_len) has at most max_len characters.
C6_AtMostMaxLen == pc = "returned" => Len(name) <= max_len

----------------------------------------------------------------------------
(* Specification SpecUnify: unify_sheets on a mapping of sheets *)

InitUnify ==
    /\ pc = "unify"
    /\ \/ frames = <<>>
       \/ \E s1 \in TaggedSheets(1) : frames = <<[sheet |-> A, df |-> s1]>>
       \/ \E s1 \in TaggedSheets(1), s2 \in TaggedSheets(2) :
             frames = <<[sheet |-> A, df |-> s1], [sheet |-> B, df |-> s2]>>
    /\ master = EmptyFrame
    /\ inferred = <<>>
    /\ NamesIdle /\ ReadIdle /\ ExportIdle /\ Running

NextUnify == Unify

SpecUnify == InitUnify /\ [][NextUnify]_vars

\* the sheet and the row of that sheet each row of the master table comes
\* from, in the order of concatenation
RECURSIVE Origins(_, _)
Origins(fr, i) ==
    IF i > Len(fr) THEN <<>>
    ELSE [r \in 1..NRows(fr[i].df) |-> <<i, r>>] \o Origins(fr, i + 1)

NormCols(fr, i) == normalize_headers(fr[i].df.columns)

\* C2: the column set of the returned master table is the union of the
\* sheets' normalized column names plus _sheet, and every row holds null
\* in each column (other than the origin tag _sheet) that the normalized
\* columns of its origin sheet lack.
C2_UnionAndNulls ==
    pc = "infer" =>
        /\ Range(master.columns) =
               UNION {Range(NormCols(frames, i)) : i \in 1..Len(frames)} \cup {_sheet}
        /\ Len(master.data) = Len(Origins(frames, 1))
        /\ \A k \in 1..Len(master.data) : \A p \in 1..Len(master.columns) :
               (/\ master.columns[p] # _sheet
                /\ master.columns[p] \notin Range(NormCols(frames, Origins(frames, 1)[k][1])))
               => IsNull(master.data[k][p])

C2_Witness ==
    /\ pc = "infer"
    /\ Len(frames) = 2
    /\ frames[1].df.columns = <<h_A, h_a>>
    /\ frames[2].df.columns = <<h_acc, h_b>>
    /\ NRows(frames[1].df) = 1
    /\ NRows(frames[2].df) = 1
    /\ \E p \in 1..Len(master.columns) :
          /\ master.columns[p] = h_a1
          /\ IsNull(master.data[2][p])
          /\ ~IsNull(master.data[1][p])

\* C3: the master table has as many rows as the sheets together, indexed
\* 0..N-1; the rows come in sheet order and, within a sheet, in row order;
\* the _sheet value of each row is the name of the sheet it came from.
C3_RowsInOrder ==
    pc = "infer" =>
        LET origin == Origins(frames, 1)
        IN  /\ Len(master.data) = Len(origin)
            /\ master.index = [k \in 1..Len(origin) |-> k - 1]
            /\ \A k \in 1..Len(origin) :
                  LET i == origin[k][1]
                      r == origin[k][2]
                  IN  /\ \E p \in 1..Len(master.columns) : master.columns[p] = _sheet
                      /\ \A p \in 1..Len(master.columns) :
                            master.columns[p] = _sheet
                                => master.data[k][p] = TextCell(frames[i].sheet)
                      /\ \A j \in 1..Len(frames[i].df.columns) :
                            NormCols(frames, i)[j] # _sheet =>
                                \E p \in 1..Len(master.columns) :
                                    /\ master.columns[p] = NormCols(frames, i)[j]
                                    /\ master.data[k][p] = frames[i].df.data[r][j]

C3_Witness ==
    /\ pc = "infer"
    /\ Len(frames) = 2
    /\ NRows(frames[1].df) = 2
    /\ NRows(frames[2].df) = 2
    /\ Len(master.data) = 4
    /\ master.index = <<0, 1, 2, 3>>

\* C10: every cell of every sheet is found in the master table, in the row
\* that comes from its row, under the normalized name of its column.
C10_NoDataLost ==
    pc = "infer" =>
        LET origin == Origins(frames, 1)
        IN  \A k \in 1..Len(origin) :
                LET i == origin[k][1]
                    r == origin[k][2]
                IN  /\ k <= Len(master.data)
                    /\ \A j \in 1..Len(frames[i].df.columns) :
                          \E p \in 1..Len(master.columns) :
                              /\ master.columns[p] = NormCols(frames, i)[j]
                              /\ master.data[k][p] = frames[i].df.data[r][j]

----------------------------------------------------------------------------
(* Specification SpecTypes: build_simple_dtypes on the master table of a   *)
(* sheet                                                                   *)

InitTypes ==
    /\ pc = "unify"
    /\ \E s \in TypedSheets({<<h_a>>, <<h_a, h_b>>, <<h_a, h_A, h_a1>>}) :
          frames = <<[sheet |-> A, df |-> s]>>
    /\ master = EmptyFrame
    /\ inferred = <<>>
    /\ NamesIdle /\ ReadIdle /\ ExportIdle /\ Running

NextTypes == Unify \/ BuildDtypes

SpecTypes == InitTypes /\ [][NextTypes]_vars

\* the type the rule gives to cells: null cells are left out, then
\* "string" if none is left or one does not parse as a number, "int" if
\* all parse with a zero fractional part, "float" otherwise
RuleType(cells) ==
    LET nonnull == {i \in 1..Len(cells) : ~IsNull(cells[i])}
    IN  IF nonnull = {} THEN "string"
        ELSE IF \E i \in nonnull : ~IsNumber(to_numeric(cells[i])) THEN "string"
        ELSE IF \A i \in nonnull : IsWhole(to_numeric(cells[i])) THEN "int"
        ELSE "float"

\* C4: build_simple_dtypes gives every column of the master table the type
\* of the all-or-nothing rule over the column's non-null cells, _sheet
\* being "string".
C4_AllOrNothingRule ==
    pc = "apply" =>
        /\ Range(DictKeys(inferred)) = Range(master.columns)
        /\ \A p \in 1..Len(master.columns) :
              DictGet(inferred, master.columns[p]) =
                  IF master.columns[p] = _sheet THEN "string"
                  ELSE RuleType(ColumnCells(master, p))

----------------------------------------------------------------------------
(* Specification SpecExport: export_columns_csvs on a table, the columns/  *)
(* directory holding files already                                         *)

LongName == Repeat("a", DefaultMaxLen + 1)

InitExport ==
    /\ pc = "export_columns_begin"
    /\ \E cols \in SeqsUpTo({h_a, h_A, h_a2, LongName}, MaxExportCols) :
          master = DataFrame(cols, <<>>, <<>>)
    /\ disk \in SUBSET {ColumnCsv(h_a), ColumnCsv(h_a2), ColumnCsv(h_a3)}
    /\ used = {}
    /\ col_i = 0
    /\ written = <<>>
    /\ frames = <<>>
    /\ inferred = <<>>
    /\ NamesIdle /\ ReadIdle /\ Running

NextExport == ExportColumnsBegin \/ ExportColumn \/ ExportColumnsEnd

SpecExport == InitExport /\ [][NextExport]_vars

\* C5: every file a call of export_columns_csvs writes has a name that no
\* file of the directory had before and that is distinct from the names it
\* wrote earlier, so that no file is overwritten; a call that returns has
\* written one new file per column.
C5_FreshDistinctNames ==
    /\ [][written' # written =>
             /\ Len(written') = Len(written) + 1
             /\ written'[Len(written')] \notin disk
             /\ written'[Len(written')] \notin Range(written)
             /\ disk' = disk \cup {written'[Len(written')]}]_vars
    /\ [](pc = "export_json" =>
             /\ Len(written) = Len(master.columns)
             /\ Cardinality(Range(written)) = Len(master.columns)
             /\ Range(written) \subseteq disk)

C5_Witness ==
    /\ pc = "export_json"
    /\ master.columns = <<h_a, h_A, h_a2>>
    /\ written = <<ColumnCsv(h_a2), ColumnCsv(<<"a", "_", "4">>),
                   ColumnCsv(<<"a", "_", "2", "_", "2">>)>>
    /\ {ColumnCsv(h_a), ColumnCsv(h_a3)} \subseteq disk

----------------------------------------------------------------------------
(* Specification SpecRead: read_excel_all_sheets on a path and a sheet     *)
(* selection                                                               *)

Workbooks ==
    {<<[sheet |-> A, df |-> TaggedSheet(<<h_a>>, 1, 1)]>>,
     <<[sheet |-> A, df |-> TaggedSheet(<<h_a, h_b>>, 1, 1)],
       [sheet |-> B, df |-> TaggedSheet(<<h_A>>, 2, 2)]>>,
     <<[sheet |-> B, df |-> TaggedSheet(<<>>, 0, 1)]>>}

Selections ==
    {ALL, <<"str", A>>, <<"none">>, <<"tuple", <<A>>>>}
        \cup {<<"list", l>> : l \in SeqsUpTo({A, B}, MaxSelection)}

InitRead ==
    /\ pc = "read"
    /\ file \in {"missing", "unreadable", "ok"}
    /\ workbook \in Workbooks
    /\ sheets_cfg \in Selections
    /\ io = <<>>
    /\ NamesIdle /\ TablesIdle /\ ExportIdle /\ Running

NextRead == ReadExcel

SpecRead == InitRead /\ [][NextRead]_vars

InvalidSelection == sheets_cfg # ALL /\ sheets_cfg[1] # "list"

\* C9 as stated: called with a selection that is neither "all" nor a list,
\* read_excel_all_sheets fails with the invalid-configuration error and
\* has made no access to the input file.
C9_NoAccessBeforeError ==
    (InvalidSelection /\ pc # "read") =>
        /\ pc = "raised"
        /\ err = "ValueError: sheets_cfg"
        /\ io = <<>>

\* C9 amended: called with such a selection, read_excel_all_sheets fails
\* having opened the input file (pd.ExcelFile) and read no sheet: with the
\* invalid-configuration error if the file opens, with the error of the
\* open if it does not.
C9_ErrorAfterOpen ==
    /\ (InvalidSelection /\ pc # "read") =>
          /\ pc = "raised"
          /\ io = <<<<"ExcelFile">>>>
          /\ err = CASE file = "missing" -> "FileNotFoundError"
                     [] file = "unreadable" -> "UnreadableFile"
                     [] OTHER -> "ValueError: sheets_cfg"
    /\ err = "ValueError: sheets_cfg" => InvalidSelection

C9_Witness ==
    /\ pc = "raised"
    /\ err = "ValueError: sheets_cfg"
    /\ sheets_cfg = <<"none">>
    /\ io = <<<<"ExcelFile">>>>

----------------------------------------------------------------------------
(* Specification Spec: a run of main *)

Sheet1(cols, row) == DataFrame(cols, <<row>>, RangeIndex(1))

MainWorkbooks ==
    {<<[sheet |-> A, df |-> Sheet1(<<h_a, h_b>>, <<IntCell(1), TextCell(<<"x">>)>>)]>>,
     <<[sheet |-> A, df |-> Sheet1(<<h_a>>, <<FloatCell(25, -1)>>)],
       [sheet |-> B, df |-> Sheet1(<<h_A, h_b>>, <<NULL, TextCell(<<"3">>)>>)]>>,
     <<[sheet |-> A, df |-> Sheet1(<<_sheet, h_a>>, <<IntCell(1), NULL>>)]>>,
     <<[sheet |-> A, df |-> Sheet1(<<h_a, h_A, h_a1>>, <<IntCell(1), NULL, IntCell(3)>>)]>>,
     <<[sheet |-> A, df |-> Sheet1(<<h_a, h_A, h_a1>>, <<IntCell(1), IntCell(2), IntCell(3)>>)]>>,
     <<[sheet |-> A, df |-> Sheet1(<<h_a, h_A, h_a1>>, <<IntCell(1), NULL, IntCell(3)>>)],
       [sheet |-> B, df |-> Sheet1(<<h_a>>, <<IntCell(1)>>)]>>}

Init ==
    /\ pc = "main"
    /\ file \in {"missing", "unreadable", "ok"}
    /\ workbook \in MainWorkbooks
    /\ sheets_cfg = ALL
    /\ io = <<>>
    /\ disk \in SUBSET {MasterCsv, ColumnCsv(h_a)}
    /\ used = {}
    /\ col_i = 0
    /\ written = <<>>
    /\ NamesIdle /\ TablesIdle /\ Running

Next ==
    \/ CheckPath
    \/ ReadExcel
    \/ Unify
    \/ BuildDtypes
    \/ ApplyDtypes
    \/ ExportMaster
    \/ ExportColumnsBegin
    \/ ExportColumn
    \/ ExportColumnsEnd
    \/ WriteJson
    \/ Summary
    \/ Uncaught

Spec == Init /\ [][Next]_vars

Ended == pc = "exited"

AllThreeWritten ==
    /\ MasterCsv \in Range(written)
    /\ Cardinality({k \in 1..Len(written) : written[k][1] = "columns"}) = Len(master.columns)
    /\ DtypesJson \in Range(written)

\* C7 as stated: when a run of main ends, either all three exports have
\* been written or none of them has.
C7_AllOrNothing == Ended => (AllThreeWritten \/ written = <<>>)

\* C7 amended: a run that ends before the export steps (the input file is
\* missing, or the read, unify or typing step fails) has written nothing,
\* and a run that ends with status 0 has written all three exports; a run
\* that fails in a write step has written the exports that precede the
\* failure in the order master.csv, column files, inferred_dtypes.json,
\* and all of them are in the output directory.
C7_NothingBeforeExports ==
    Ended =>
        /\ exit_status = 0 => AllThreeWritten
        /\ (exit_status = 1 /\ err \notin {"OSError", "ValueError: column is 2-dimensional"})
               => written = <<>>
        /\ written # <<>> => written[1] = MasterCsv
        /\ DtypesJson \in Range(written) => AllThreeWritten
        /\ Range(written) \subseteq disk
        /\ exit_status \in {0, 1}

C7_Witness ==
    /\ pc = "exited"
    /\ err = "OSError"
    /\ written = <<MasterCsv, ColumnCsv(h_a)>>
    /\ Len(master.columns) = 3

====
